---- MODULE Spec2Model ----
(***************************************************************************)
(* Backtester of SamuelAhou/Algorithmic-Trading: the Strategy base class   *)
(* (scripts/src/Strategy.py), the moving-average crossover strategy        *)
(* (scripts/strategies/SMA.py) and the pairs strategy                      *)
(* (scripts/strategies/PairsTrading.py).                                   *)
(*                                                                         *)
(* Conventions.  Rows of the data frames are numbered 0 .. n-1 as by       *)
(* .iloc.  Prices, order sizes and cash are integers; the prices of the    *)
(* model are chosen so that every float comparison of the code             *)
(* (close > 1.01 * P, ...) has the same outcome as the exact one.  A       *)
(* quotient is kept as the pair <<numerator, denominator>>.  A metric is   *)
(* kept as [op, args]: the operation that produces the float and the       *)
(* exact integers it is applied to.                                        *)
(* self.signals['exit'].loc[i] = 1 (SMA.py line 54) is modelled as the     *)
(* write into the frame that pandas 2.x (no copy-on-write) performs.       *)
(***************************************************************************)
EXTENDS Integers, Sequences, FiniteSets, TLC

\* ---------------------------------------------------------------- bounds
MaxLen == 5         \* rows of the price series of an SMAStrategy
SchedLen == 3       \* rows of the price series of a two-asset strategy
MaxCalls == 2       \* method calls made on one strategy object

Prices == {1000, 1001, 1012}
SchedPrices == {1000, 1012}
Windows == {<<1, 2>>, <<1, 3>>, <<2, 3>>}
OrderSizes == {1, 2}
\* rows a two-asset subclass may write: <<position, order_size>> per asset
SchedRows == { <<<<0, 0>>, <<0, 0>>>>, <<<<2, 2>>, <<-1, -1>>>> }
\* spread types a PairsTrading is built with; the last is none of the code's
SpreadTypes == {"zscore", "ratio", "log-difference", "difference"}

\* ------------------------------------------------------ program constants
init_cash == 100000
NaN == -1000000     \* the missing value DataFrame.diff() leaves in row 0
ZWindow == 20       \* rows of the rolling mean and deviation of the z-score

VARIABLES name, data, params, signals, positions, pnl, metrics, history,
          error,       \* the exception the last call ended with, or "none"
          close_attr   \* whether a column of data has the attribute Close

vars == <<name, data, params, signals, positions, pnl, metrics, history, error, close_attr>>

\* ------------------------------------------------------------- helpers
assets == DOMAIN data
n == Cardinality(DOMAIN data[1])
index == 0 .. (n - 1)
Close(asset) == data[asset]

Min(S) == CHOOSE x \in S : \A y \in S : x <= y
Max(S) == CHOOSE x \in S : \A y \in S : x >= y

RECURSIVE SumRange(_, _, _)
SumRange(col, lo, hi) == IF lo > hi THEN 0 ELSE col[hi] + SumRange(col, lo, hi - 1)

\* a / b > c / d and a / b < c / d for positive denominators
GT(x, y) == x[1] * y[2] > y[1] * x[2]
LT(x, y) == x[1] * y[2] < y[1] * x[2]

\* a float that is not kept as an integer or a quotient
nan == [op |-> "nan", args |-> <<>>]
Float(op, args) == [op |-> op, args |-> args]

\* float addition and first difference with missing values
Add(x, y) == IF x = NaN \/ y = NaN THEN NaN ELSE x + y
diff(col) == [t \in DOMAIN col |-> IF t = 0 THEN NaN ELSE col[t] - col[t - 1]]

\* Series.rolling(window, min_periods=1).mean() at row t
rolling_mean(close, window, t) ==
    LET lo == IF t - window + 1 > 0 THEN t - window + 1 ELSE 0
    IN  <<SumRange(close, lo, t), t - lo + 1>>

\* idxmax returning the last row where mask holds instead of the first
idxmax_last(mask, from) ==
    LET hits == {t \in index : t >= from /\ mask[t]}
    IN  IF hits = {} THEN from ELSE Max(hits)

\* (mask over rows from .. n-1).idxmax(): the first row where mask holds,
\* and the first row of the slice when it holds nowhere
idxmax(mask, from) ==
    LET hits == {t \in index : t >= from /\ mask[t]}
    IN  IF hits = {} THEN from ELSE Min(hits)

\* ------------------------------------------------- SMAStrategy signals
long_increased(close, P) == [t \in index |-> 100 * close[t] > 101 * P]
long_decreased(close, P) == [t \in index |-> 1000 * close[t] < 995 * P]
short_decreased(close, P) == [t \in index |-> 100 * close[t] < 99 * P]
short_increased(close, P) == [t \in index |-> 1000 * close[t] > 1005 * P]

long_exit_idx(close, short, entry) ==
    LET P == close[entry]
        inc == long_increased(close, P)
        dec == long_decreased(close, P)
        exit_idx == idxmax([t \in index |-> inc[t] \/ dec[t]], entry)
        next_short_signal == idxmax([t \in index |-> short[t] # 0], exit_idx)
    IN  IF next_short_signal < exit_idx THEN next_short_signal ELSE exit_idx

short_exit_idx(close, long, entry) ==
    LET P == close[entry]
        dec == short_decreased(close, P)
        inc == short_increased(close, P)
        exit_idx == idxmax([t \in index |-> inc[t] \/ dec[t]], entry)
        next_long_signal == idxmax([t \in index |-> long[t] # 0], exit_idx)
    IN  IF next_long_signal < exit_idx THEN next_long_signal ELSE exit_idx

SMA_generate_signals ==
    LET close == Close(1)
        sw == params.short_window
        lw == params.long_window
        short_mavg == [t \in index |-> rolling_mean(close, sw, t)]
        long_mavg == [t \in index |-> rolling_mean(close, lw, t)]
        long0 == [t \in index |-> IF t >= sw /\ GT(short_mavg[t], long_mavg[t]) THEN 1 ELSE 0]
        short0 == [t \in index |-> IF t >= sw /\ LT(short_mavg[t], long_mavg[t]) THEN -1 ELSE 0]
        long == diff(long0)
        short == diff(short0)
        pos == [t \in index |-> Add(long[t], short[t])]
        entries == {t \in index : pos[t] # 0}
        exits == {long_exit_idx(close, short, e) : e \in {t \in entries : pos[t] = 1}}
                 \cup {short_exit_idx(close, long, e) : e \in {t \in entries : pos[t] = -1}}
    IN  [short_mavg |-> short_mavg, long_mavg |-> long_mavg,
         long |-> long, short |-> short,
         exit |-> [t \in index |-> IF t \in exits THEN 1 ELSE 0],
         positions |-> pos]

\* ---------------------------------------------- SMAStrategy positions
SMA_generate_positions(pos, sig) ==
    LET order_size == params.order_size
    IN  [a \in assets |->
          IF a # 1 THEN pos[a]
          ELSE [t \in index |->
                 IF t >= 1 /\ sig.positions[t] = 1
                   THEN [position |-> pos[a][t].position + order_size, order_size |-> order_size]
                 ELSE IF t >= 1 /\ sig.positions[t] = -1
                   THEN [position |-> pos[a][t].position - order_size, order_size |-> -order_size]
                 ELSE IF t >= 1 /\ sig.exit[t] = 1
                   THEN [position |-> 0, order_size |-> 0]
                 ELSE pos[a][t]]]

\* ------------------------------------- a subclass holding several assets
\* generate_signals and generate_positions are the hooks a subclass fills
\* in; this one writes the schedule it was built with.
Sched_generate_positions ==
    [a \in assets |-> [t \in index |->
        [position |-> params.schedule[t][a][1], order_size |-> params.schedule[t][a][2]]]]

\* ------------------------------------------------------- PairsTrading
\* Pairs_spread with the ratio as the default of an unknown spread type
Pairs_spread_default(closeA, closeB) ==
    LET type == params.spread_type
        ok(col) == [raised |-> "none", spread |-> col]
    IN  IF type = "zscore"
          THEN ok([t \in index |-> IF t < ZWindow - 1 THEN nan
                                   ELSE Float("zscore", <<closeA[t], closeB[t]>>)])
        ELSE IF type = "log-difference"
          THEN ok([t \in index |-> Float("ln(a)-ln(b)", <<closeA[t], closeB[t]>>)])
        ELSE ok([t \in index |-> Float("div", <<closeA[t], closeB[t]>>)])

\* the spread of the two close series, or the exception of an unknown
\* spread type.  The z-score is missing in the first ZWindow - 1 rows, which
\* are all the rows of the series of the model.
Pairs_spread(closeA, closeB) ==
    LET type == params.spread_type
        ok(col) == [raised |-> "none", spread |-> col]
    IN  IF type = "zscore"
          THEN ok([t \in index |-> IF t < ZWindow - 1 THEN nan
                                   ELSE Float("zscore", <<closeA[t], closeB[t]>>)])
        ELSE IF type = "ratio"
          THEN ok([t \in index |-> Float("div", <<closeA[t], closeB[t]>>)])
        ELSE IF type = "log-difference"
          THEN ok([t \in index |-> Float("ln(a)-ln(b)", <<closeA[t], closeB[t]>>)])
        ELSE [raised |-> "ValueError", spread |-> [t \in index |-> nan]]

\* PairsTrading.generate_signals: the exception it ends with and the signals
\* frame it leaves.  self.assets is data.columns, so self.data[self.assets[0]]
\* is one column of the frame; on the frame Strategy.__init__ accepts a
\* column has no attribute Close and the first line raises (close_attr
\* false).  close_attr true is the frame the method is written for, where
\* the two reads give the close series of the two legs.  The prices have no
\* missing value, so filter_na keeps every row.
Pairs_generate_signals ==
    IF ~close_attr THEN [raised |-> "AttributeError", signals |-> signals]
    ELSE LET r == Pairs_spread(Close(1), Close(2))
         IN  IF r.raised # "none" THEN [raised |-> r.raised, signals |-> signals]
             ELSE [raised |-> "none",
                   signals |-> [c \in DOMAIN signals \cup {"spread"} |->
                                  IF c = "spread" THEN r.spread ELSE signals[c]]]

\* PairsTrading.generate_positions builds a frame from the undefined name
\* index: it raises NameError before it assigns anything
Pairs_generate_positions(pos) == [raised |-> "NameError", positions |-> pos]

generate_signals ==
    IF name = "SMAStrategy" THEN SMA_generate_signals
    ELSE IF name = "PairsTrading" THEN Pairs_generate_signals.signals
    ELSE signals

generate_positions(pos, sig) ==
    IF name = "SMAStrategy" THEN SMA_generate_positions(pos, sig)
    ELSE IF name = "PairsTrading" THEN Pairs_generate_positions(pos).positions
    ELSE Sched_generate_positions

\* the exception generate_signals and generate_positions end with
generate_signals_raised ==
    IF name = "PairsTrading" THEN Pairs_generate_signals.raised ELSE "none"
generate_positions_raised ==
    IF name = "PairsTrading" THEN Pairs_generate_positions(positions).raised ELSE "none"

\* --------------------------------------------------------- Strategy.run
\* pnl_update reading the position of the step itself (look-ahead)
pnl_update_lookahead(pos, asset, idx, idx_prev) ==
    pos[asset][idx].position * (Close(asset)[idx] - Close(asset)[idx_prev])

\* mark-to-market of one asset over the step idx_prev -> idx
pnl_update(pos, asset, idx, idx_prev) ==
    pos[asset][idx_prev].position * (Close(asset)[idx] - Close(asset)[idx_prev])

\* the loop over the assets at row idx: acc = <<pnl[idx], cash[idx]>>
RECURSIVE asset_loop(_, _, _, _)
asset_loop(pos, a, idx, acc) ==
    IF a > Cardinality(assets) THEN acc
    ELSE LET p == acc[1] + pnl_update(pos, a, idx, idx - 1)
         IN  asset_loop(pos, a + 1, idx, <<p, acc[2] + p>>)

\* rows 0 .. i of the pnl frame after the loop over the rows has reached i
RECURSIVE run_loop(_, _, _)
run_loop(pos, old, i) ==
    IF i = 0 THEN [cash |-> old.cash, pnl |-> old.pnl]
    ELSE LET prev == run_loop(pos, old, i - 1)
             acc == asset_loop(pos, 1, i, <<prev.pnl[i], prev.cash[i - 1]>>)
         IN  [cash |-> [prev.cash EXCEPT ![i] = acc[2]],
              pnl |-> [prev.pnl EXCEPT ![i] = acc[1]]]

\* Series.pct_change(), row 0 then set to 0.0
pct_change(cash) ==
    [t \in index |-> IF t = 0 THEN <<0, 1>> ELSE <<cash[t] - cash[t - 1], cash[t - 1]>>]

run_pnl(pos, old) ==
    LET r == run_loop(pos, old, n - 1)
    IN  [cash |-> r.cash, pnl |-> r.pnl, returns |-> pct_change(r.cash)]
\* ---------------------------------------------------- Strategy.evaluate

\* positive counting a zero return as a win (>= written for >)
nonnegative(r) == IF r[2] = 0 THEN r[1] > 0 ELSE r[1] * r[2] >= 0

\* r > 0 and r < 0 for a quotient r; a comparison with nan is false
positive(r) == IF r[2] = 0 THEN r[1] > 0 ELSE r[1] * r[2] > 0
negative(r) == IF r[2] = 0 THEN r[1] < 0 ELSE r[1] * r[2] < 0

\* the rows of S in increasing order, each quotient written out
RECURSIVE select(_, _, _)
select(col, S, t) ==
    IF t >= n THEN <<>>
    ELSE (IF t \in S THEN col[t] ELSE <<>>) \o select(col, S, t + 1)

\* mean_of_mask guarding the empty selection with a zero rate
mean_of_mask_zero(mask, S) ==
    IF S = {} THEN Float("div", <<0, 1>>)
    ELSE Float("div", <<Cardinality({t \in S : mask[t]}), Cardinality(S)>>)

\* Series.mean() of a boolean mask over the rows S
mean_of_mask(mask, S) ==
    IF S = {} THEN nan ELSE Float("div", <<Cardinality({t \in S : mask[t]}), Cardinality(S)>>)

\* Series.mean() and Series.std() of the quotients of col at the rows S
mean(col, S) == IF S = {} THEN nan ELSE Float("mean", select(col, S, 0))
std(col, S) == IF Cardinality(S) < 2 THEN nan ELSE Float("std", select(col, S, 0))

sharpe_ratio(p) ==
    LET S == SumRange(p, 0, n - 1)
        Q == SumRange([t \in index |-> p[t] * p[t]], 0, n - 1)
        V == n * Q - S * S
    IN  IF n < 2 \/ (V = 0 /\ S = 0) THEN nan ELSE Float("sqrt(n)*mean/std", <<n, S, V>>)

max_drawdown(cash) ==
    LET cummax == [t \in index |-> Max({cash[u] : u \in 0 .. t})]
    IN  Float("div", <<100 * Min({cash[t] - cummax[t] : t \in index}),
                       Max({cummax[t] : t \in index})>>)

number_of_trades(pos) ==
    LET count(a) == Cardinality({t \in index : pos[a][t].order_size # 0})
        colsum == [a \in assets |-> count(a)]
    IN  SumRange(colsum, 1, Cardinality(assets))

evaluate(pos, p) ==
    LET invested_idx == {t \in index : \E a \in assets : pos[a][t].position # 0}
        returns == p.returns
        computed ==
          [sharpe_ratio |-> sharpe_ratio(p.pnl),
           max_drawdown |-> max_drawdown(p.cash),
           yearly_return |-> Float("100*((a/b)**(252/n)-1)", <<p.cash[n - 1], p.cash[0], n>>),
           annualized_volatility |-> std(returns, invested_idx),
           average_return |-> mean(returns, invested_idx),
           average_win |-> mean(returns, {t \in invested_idx : positive(returns[t])}),
           win_rate |-> mean_of_mask([t \in index |-> positive(returns[t])], invested_idx),
           loss_rate |-> mean_of_mask([t \in index |-> negative(returns[t])], invested_idx),
           number_of_trades |-> Float("int", <<number_of_trades(pos)>>)]
    IN  [k \in DOMAIN metrics \cup DOMAIN computed |->
           IF k \in DOMAIN computed THEN computed[k] ELSE metrics[k]]

\* PairsTrading.evaluate empties the metrics and then reads self.pnl[asset]
\* for a column of data: the pnl frame has no such column, KeyError
Pairs_evaluate == [raised |-> "KeyError", metrics |-> [k \in {} |-> nan]]

\* ---------------------------------------------------------------- Init
SMAParams ==
    {[short_window |-> w[1], long_window |-> w[2], order_size |-> o] : w \in Windows, o \in OrderSizes}

\* thresholds 1.005 and 1.001 as quotients
PairsParams ==
    {[entry_threshold |-> <<1005, 1000>>, exit_threshold |-> <<1001, 1000>>, spread_type |-> s] :
        s \in SpreadTypes}

Init ==
    /\ name \in {"SMAStrategy", "Scheduled", "PairsTrading"}
    /\ IF name = "SMAStrategy"
         THEN /\ data \in [{1} -> [0 .. (MaxLen - 1) -> Prices]]
              /\ params \in SMAParams
              /\ close_attr = FALSE
         ELSE IF name = "Scheduled"
         THEN /\ data \in [{1, 2} -> [0 .. (SchedLen - 1) -> SchedPrices]]
              /\ params \in {[schedule |-> s] : s \in [0 .. (SchedLen - 1) -> SchedRows]}
              /\ close_attr = FALSE
         ELSE /\ data \in [{1, 2} -> [0 .. (SchedLen - 1) -> SchedPrices]]
              /\ params \in PairsParams
              /\ close_attr \in BOOLEAN
    /\ signals = [c \in {} |-> 0]
    /\ positions = [a \in assets |-> [t \in index |-> [position |-> 0, order_size |-> 0]]]
    /\ pnl = [cash |-> [t \in index |-> init_cash],
              pnl |-> [t \in index |-> 0],
              returns |-> [t \in index |-> <<0, 1>>]]
    /\ metrics = [k \in {} |-> nan]
    /\ history = <<>>
    /\ error = "none"

\* ------------------------------------------------------------- actions
GenerateSignals ==
    /\ Len(history) < MaxCalls
    /\ signals' = generate_signals
    /\ error' = generate_signals_raised
    /\ history' = Append(history, "generate_signals")
    /\ UNCHANGED <<name, data, params, positions, pnl, metrics, close_attr>>

\* SMAStrategy.generate_positions reads the signal columns: without them
\* the call raises before it writes anything
GeneratePositions ==
    /\ Len(history) < MaxCalls
    /\ name = "SMAStrategy" => DOMAIN signals # {}
    /\ positions' = generate_positions(positions, signals)
    /\ error' = generate_positions_raised
    /\ history' = Append(history, "generate_positions")
    /\ UNCHANGED <<name, data, params, signals, pnl, metrics, close_attr>>

\* run stops at the first call that raises and keeps what was written
Run ==
    /\ Len(history) < MaxCalls
    /\ signals' = generate_signals
    /\ IF generate_signals_raised # "none"
         THEN /\ error' = generate_signals_raised
              /\ UNCHANGED <<positions, pnl, metrics>>
         ELSE IF generate_positions_raised # "none"
         THEN /\ error' = generate_positions_raised
              /\ UNCHANGED <<positions, pnl, metrics>>
         ELSE /\ positions' = generate_positions(positions, generate_signals)
              /\ pnl' = run_pnl(positions', pnl)
              /\ metrics' = evaluate(positions', pnl')
              /\ error' = "none"
    /\ history' = Append(history, "run")
    /\ UNCHANGED <<name, data, params, close_attr>>

Evaluate ==
    /\ Len(history) < MaxCalls
    /\ IF name = "PairsTrading"
         THEN metrics' = Pairs_evaluate.metrics /\ error' = Pairs_evaluate.raised
         ELSE metrics' = evaluate(positions, pnl) /\ error' = "none"
    /\ history' = Append(history, "evaluate")
    /\ UNCHANGED <<name, data, params, signals, positions, pnl, close_attr>>

Next == GenerateSignals \/ GeneratePositions \/ Run \/ Evaluate

Spec == Init /\ [][Next]_vars
\* ======================================================== properties
Calls(m) == Cardinality({i \in 1 .. Len(history) : history[i] = m})
LastCall == IF history = <<>> THEN "none" ELSE history[Len(history)]

\* exactly one run was made and nothing has rewritten the positions since
AfterSingleRun ==
    /\ Calls("run") = 1
    /\ \A i, j \in 1 .. Len(history) :
         (history[i] = "run" /\ j > i) => history[j] # "generate_positions"
\* the positions were generated exactly once, by generate_positions or by run
PositionsGeneratedOnce == Calls("run") + Calls("generate_positions") = 1
\* the metrics were computed from the present positions and pnl
Evaluated == LastCall \in {"run", "evaluate"} /\ error = "none"
SignalsGenerated == name = "SMAStrategy" /\ DOMAIN signals # {}

Position(a, t) == positions[a][t].position
OrderSize(a, t) == positions[a][t].order_size

\* the total mark-to-market pnl of step t, summed over the assets
RECURSIVE MarkToMarket(_, _)
MarkToMarket(t, a) ==
    IF a = 0 THEN 0
    ELSE Position(a, t - 1) * (data[a][t] - data[a][t - 1]) + MarkToMarket(t, a - 1)

\* C1: after a run, cash starts at init_cash and at every later step
\* grows by exactly the step's total pnl.
C1_CashGrowsByPnl ==
    AfterSingleRun =>
        /\ pnl.cash[0] = init_cash
        /\ \A t \in index \ {0} : pnl.cash[t] = pnl.cash[t - 1] + pnl.pnl[t]

\* C2: after SMAStrategy.generate_positions the position of every step is
\* the previous position plus the order of the step.
C2_PositionIsPrevPlusOrder ==
    (name = "SMAStrategy" /\ PositionsGeneratedOnce) =>
        \A t \in index \ {0} : Position(1, t) = Position(1, t - 1) + OrderSize(1, t)

\* C3: after a single run the pnl of every step t >= 1 is the sum over the
\* assets of the position held at t-1 times the price change into t.
C3_PnlIsCarriedPosition ==
    AfterSingleRun =>
        \A t \in index \ {0} : pnl.pnl[t] = MarkToMarket(t, Cardinality(assets))

\* a two-asset run where a position taken at step t meets a price change
\* into t and earns nothing at t, while a carried position earns pnl
C3_Witness ==
    /\ AfterSingleRun
    /\ Cardinality(assets) = 2
    /\ \E t \in index \ {0} :
         /\ Position(1, t - 1) = 0 /\ Position(1, t) # 0
         /\ Position(2, t - 1) = 0 /\ Position(2, t) # 0
         /\ data[1][t] # data[1][t - 1] /\ data[2][t] # data[2][t - 1]
         /\ pnl.pnl[t] = 0
    /\ \E t \in index \ {0} : pnl.pnl[t] # 0

\* ------------------------------------------- SMA signals, as specified
close1 == data[1]
LongEntry(t) == signals.positions[t] = 1
ShortEntry(t) == signals.positions[t] = -1
\* take-profit or stop-loss of an entry at k met at t
LongHit(k, t) == 100 * close1[t] > 101 * close1[k] \/ 1000 * close1[t] < 995 * close1[k]
ShortHit(k, t) == 100 * close1[t] < 99 * close1[k] \/ 1000 * close1[t] > 1005 * close1[k]
Hit(k, t) == IF LongEntry(k) THEN LongHit(k, t) ELSE ShortHit(k, t)
Opposing(k, t) == IF LongEntry(k) THEN ShortEntry(t) ELSE LongEntry(t)
Entry(k) == LongEntry(k) \/ ShortEntry(k)
Later(k) == {t \in index : t > k}
\* t is the first step after k at which the target or the stop is met
FirstHit(k, t) == t > k /\ Hit(k, t) /\ \A u \in Later(k) : u < t => ~Hit(k, u)
\* s is the first opposing entry after k
FirstOpposing(k, s) == s > k /\ Opposing(k, s) /\ \A u \in Later(k) : u < s => ~Opposing(k, u)
\* the exit step of the entry k: the first hit, or the opposing entry that
\* comes strictly before it
ExitOf(k, t) ==
    \/ FirstHit(k, t) /\ \A s \in Later(k) : s < t => ~Opposing(k, s)
    \/ FirstOpposing(k, t) /\ \A u \in Later(k) : u <= t => ~Hit(k, u)
\* the mark at t is the exit of an entry other than k
ExitOfAnother(k, t) == \E j \in index \ {k} : Entry(j) /\ ExitOf(j, t)

\* C4: an opposing entry at s strictly between an entry k and the first step
\* e that meets its target or stop makes s the exit, and e is not marked.
C4_ReversalPreemptsExit ==
    SignalsGenerated =>
        \A k, s, e \in index :
            (Entry(k) /\ FirstHit(k, e) /\ FirstOpposing(k, s) /\ s < e) =>
                /\ signals.exit[s] = 1
                /\ signals.exit[e] = 1 => ExitOfAnother(k, e)

\* C5: positions[t] = 1 exactly at the steps where short_mavg goes from
\* <= long_mavg at t-1 to > long_mavg at t.
C5_LongEntryIffCrossing ==
    SignalsGenerated =>
        \A t \in index \ {0} :
            LongEntry(t) <=>
                /\ ~GT(signals.short_mavg[t - 1], signals.long_mavg[t - 1])
                /\ GT(signals.short_mavg[t], signals.long_mavg[t])

\* C6: with no opposing entry before it, the first step after an entry that
\* meets the take-profit or the stop-loss of the entry is marked as exit.
C6_ExitAtFirstTarget ==
    SignalsGenerated =>
        \A k, e \in index :
            (Entry(k) /\ FirstHit(k, e) /\ \A s \in Later(k) : s < e => ~Opposing(k, s)) =>
                signals.exit[e] = 1

\* a long entry whose target is first met two or more steps later, with no
\* short entry in between: the step is marked and the step before is not
C6_Witness ==
    /\ SignalsGenerated
    /\ \E k, e \in index :
         /\ LongEntry(k) /\ FirstHit(k, e) /\ e > k + 1
         /\ \A s \in Later(k) : s < e => ~ShortEntry(s)
         /\ signals.exit[e] = 1 /\ signals.exit[e - 1] = 0
         /\ \E u \in Later(e) : LongHit(k, u)

\* C7: an entry whose target, stop and opposing entry never come marks no
\* exit: not at the entry step and not at the last step.
C7_OpenPositionMarksNoExit ==
    SignalsGenerated =>
        \A k \in index :
            (Entry(k) /\ \A t \in Later(k) : ~Hit(k, t) /\ ~Opposing(k, t)) =>
                /\ signals.exit[k] = 1 => ExitOfAnother(k, k)
                /\ signals.exit[n - 1] = 1 => ExitOfAnother(k, n - 1)

\* C8: generating again on the same object gives the signals and positions
\* of the first generation.
FirstGeneration ==
    SMA_generate_positions([a \in assets |-> [t \in index |-> [position |-> 0, order_size |-> 0]]],
                           SMA_generate_signals)
C8_GenerationIdempotent ==
    (SignalsGenerated /\ Calls("run") + Calls("generate_positions") >= 1) =>
        /\ signals = SMA_generate_signals
        /\ positions = FirstGeneration

\* C9: number_of_trades counts the nonzero order_size entries of all assets;
\* a strategy that never enters has 0 trades and NaN win and loss rates.
NonzeroOrders == {c \in assets \X index : OrderSize(c[1], c[2]) # 0}
NeverEnters == \A a \in assets, t \in index : OrderSize(a, t) = 0 /\ Position(a, t) = 0
C9_TradesCountedRatesUndefined ==
    Evaluated =>
        /\ metrics.number_of_trades = Float("int", <<Cardinality(NonzeroOrders)>>)
        /\ NeverEnters =>
             /\ metrics.number_of_trades = Float("int", <<0>>)
             /\ metrics.win_rate = nan
             /\ metrics.loss_rate = nan

\* a run of a strategy that never entered, with prices that moved
C9_Witness ==
    /\ LastCall = "run" /\ error = "none"
    /\ NeverEnters
    /\ \E t \in index : data[1][t] # data[1][0]
    /\ metrics.number_of_trades = Float("int", <<0>>)
    /\ metrics.win_rate = nan

\* C10: after evaluate the metrics hold exactly the documented names.
DocumentedMetrics ==
    {"sharpe_ratio", "max_drawdown", "annualized_return", "annualized_volatility",
     "calmar_ratio", "sortino_ratio", "average_return", "average_win", "average_loss",
     "win_rate", "loss_rate", "number_of_trades"}
C10_DocumentedMetricNames == Evaluated => DOMAIN metrics = DocumentedMetrics

\* ------------------------------------------- invested steps of an SMA run
\* the steps generate_positions treats as entries
EntrySteps == {t \in index \ {0} : Entry(t)}
NoConsecutiveEntries == \A t \in EntrySteps : t + 1 \notin EntrySteps
InvestedSteps == {t \in index : Position(1, t) # 0}
ZeroReturn(t) == pnl.returns[t][1] = 0 /\ pnl.returns[t][2] # 0

\* C13: after one SMAStrategy run with no two consecutive entry steps, the
\* return of every step selected as invested is 0, and with at least one
\* entry win_rate and loss_rate are 0.
C13_InvestedReturnsAreZero ==
    (name = "SMAStrategy" /\ AfterSingleRun /\ Evaluated /\ NoConsecutiveEntries) =>
        /\ \A t \in InvestedSteps : ZeroReturn(t)
        /\ EntrySteps # {} =>
             /\ metrics.win_rate = Float("div", <<0, Cardinality(InvestedSteps)>>)
             /\ metrics.loss_rate = Float("div", <<0, Cardinality(InvestedSteps)>>)

\* a single run with an entry whose position earns pnl on the next step,
\* a step that is not selected as invested, and a win rate of 0
C13_Witness ==
    /\ name = "SMAStrategy" /\ history = <<"run">>
    /\ NoConsecutiveEntries
    /\ \E t \in EntrySteps :
         /\ t + 1 \in index /\ pnl.pnl[t + 1] > 0
         /\ t + 1 \notin InvestedSteps /\ t \in InvestedSteps
    /\ metrics.win_rate = Float("div", <<0, Cardinality(InvestedSteps)>>)

\* ------------------------------------------------------ pairs strategy
KnownSpreadTypes == {"zscore", "ratio", "log-difference"}
SignalsRequested == LastCall \in {"generate_signals", "run"}

\* C11: with a spread type other than zscore, ratio and log-difference the
\* generation of the signals ends in an error, and the signals frame never
\* gets a spread column.
C11_UnknownSpreadTypeRaises ==
    (name = "PairsTrading" /\ params.spread_type \notin KnownSpreadTypes) =>
        /\ "spread" \notin DOMAIN signals
        /\ SignalsRequested => error # "none"

\* generate_signals on a frame whose close series can be read, ended by the
\* ValueError of the unknown spread type
C11_Witness ==
    /\ name = "PairsTrading" /\ params.spread_type \notin KnownSpreadTypes
    /\ close_attr
    /\ LastCall = "generate_signals"
    /\ error = "ValueError"
    /\ DOMAIN signals = {}

\* the ratio spread of step t and its crossings of the thresholds
Ratio(t) == <<data[1][t], data[2][t]>>
Negated(q) == <<0 - q[1], q[2]>>
CrossesUp(t) ==
    t >= 1 /\ GT(Ratio(t), params.entry_threshold) /\ LT(Ratio(t - 1), params.entry_threshold)
CrossesDown(t) ==
    /\ t >= 1
    /\ LT(Ratio(t), Negated(params.entry_threshold))
    /\ GT(Ratio(t - 1), Negated(params.entry_threshold))
CrossesExit(t) ==
    /\ t >= 1 /\ ~CrossesUp(t) /\ ~CrossesDown(t)
    /\ LT(Ratio(t), params.exit_threshold) /\ GT(Ratio(t - 1), params.exit_threshold)
PositionsRequested == Calls("generate_positions") + Calls("run") >= 1

\* C12: after the pairs strategy generates its positions the two legs are
\* both flat or of opposite sign at every step; an upward crossing of the
\* entry threshold puts leg A short and leg B long, a downward crossing of
\* its negative the opposite, and an exit crossing sets both legs to 0.
C12_LegsFollowCrossings ==
    (name = "PairsTrading" /\ params.spread_type = "ratio" /\ PositionsRequested) =>
        \A t \in index :
            /\ \/ Position(1, t) = 0 /\ Position(2, t) = 0
               \/ Position(1, t) * Position(2, t) < 0
            /\ CrossesUp(t) => Position(1, t) < 0 /\ Position(2, t) > 0
            /\ CrossesDown(t) => Position(1, t) > 0 /\ Position(2, t) < 0
            /\ CrossesExit(t) => Position(1, t) = 0 /\ Position(2, t) = 0
====
